---------------------------- MODULE Spec2Model ----------------------------
(***************************************************************************)
(* SpiFlashUtils: reclaiming GPIO9/GPIO10 of an ESP8266 by disabling the   *)
(* /WP and /HOLD pin functions of the SPI flash.                           *)
(*                                                                         *)
(* The model holds the flash device (status registers SR1..SR3, the        *)
(* write-enable latch), the two pins, a log of every bus and pin           *)
(* operation in program order, and the position of the procedure that     *)
(* runs: reclaim_GPIO_9_10() or one of the diagnostic procedures of        *)
(* TestFlashQE/WP_HOLD_Test.cpp, or one of the SFDP readers of             *)
(* SfdpRevInfo.cpp.                                                        *)
(***************************************************************************)
EXTENDS Integers, Sequences, FiniteSets, TLC

VARIABLES
  id,       \* flash ID returned by alt_spi_flash_get_id()
  quad,     \* is_spi0_quad(): SPI0 controller configured for QIO/QOUT
  cfg,      \* what the attached flash part does with each opcode
  hw,       \* device registers, pins and the operation log
  pc,       \* position inside the procedure
  success,  \* local variable `success` of reclaim_GPIO_9_10()
  retval,   \* value returned by the procedure, meaningful at "Done"
  entry,    \* the device registers and latch when the call started
  call,     \* the procedure that runs, its arguments and locals
  build,    \* BUILTIN_SUPPORT_* flags supplied to the build ("" = not supplied)
  sfdp      \* SFDP contents of the part, read results, heap and *rev

vars == <<id, quad, cfg, hw, pc, success, retval, entry, call, build, sfdp>>

---------------------------------------------------------------------------
(* Bounds of the model *)

\* number of sample bytes the status registers start from
MaxSample == 3

---------------------------------------------------------------------------
(* Bit arithmetic on unsigned values *)

RECURSIVE BitAnd(_, _)
BitAnd(a, b) ==
  IF a = 0 \/ b = 0 THEN 0
  ELSE (a % 2) * (b % 2) + 2 * BitAnd(a \div 2, b \div 2)

RECURSIVE BitOr(_, _)
BitOr(a, b) ==
  IF a = 0 THEN b
  ELSE IF b = 0 THEN a
  ELSE (IF (a % 2) + (b % 2) > 0 THEN 1 ELSE 0) + 2 * BitOr(a \div 2, b \div 2)

BIT1 == 2
BIT2 == 4
BIT6 == 64
BIT7 == 128
BIT8 == 256

HasBit(v, bit) == BitAnd(v, bit) = bit

---------------------------------------------------------------------------
(* Flash vendor bytes and the flash IDs the model runs with *)

SPI_FLASH_VENDOR_GIGADEVICE == 200  \* 0xC8
SPI_FLASH_VENDOR_MYSTERY_D8 == 216  \* 0xD8
SPI_FLASH_VENDOR_XMC        == 32   \* 0x20
SPI_FLASH_VENDOR_PMC        == 157  \* 0x9D
SPI_FLASH_VENDOR_MACRONIX   == 194  \* 0xC2
SPI_FLASH_VENDOR_EON        == 28   \* 0x1C
EON_S6_DEVICE               == 12316 \* 0x301C, device/MFG of EN25Q32A/B/C

FlashIds ==
  { 1458376,   \* 0x1640C8 GigaDevice
    1458392,   \* 0x1640D8 mystery vendor 0xD8
    1458208,   \* 0x164020 XMC
    1458333,   \* 0x16409D PMC / ISSI
    1450178,   \* 0x1620C2 Macronix
    1454108,   \* 0x16301C EON EN25Q32C
    1454876,   \* 0x16331C EON EN25Q32 (no S6 bit)
    1601564,   \* 0x18701C EON EN25QH128A
    1458415,   \* 0x1640EF Winbond, no specific handler
    1458431 }  \* 0x1640FF no specific handler

Vendor(_id) == BitAnd(255, _id)

HandledVendors ==
  { SPI_FLASH_VENDOR_GIGADEVICE, SPI_FLASH_VENDOR_MYSTERY_D8,
    SPI_FLASH_VENDOR_XMC, SPI_FLASH_VENDOR_PMC,
    SPI_FLASH_VENDOR_MACRONIX, SPI_FLASH_VENDOR_EON }

---------------------------------------------------------------------------
(* Build flags.  A flag is "" when the build does not supply it, else the  *)
(* text of its value.                                                      *)

\* the build that supplies no BUILTIN_SUPPORT_* flag
NoFlags ==
  [BUILTIN_SUPPORT_GIGADEVICE |-> "", BUILTIN_SUPPORT_MYSTERY_VENDOR_D8 |-> "",
   BUILTIN_SUPPORT_SPI_FLASH_VENDOR_XMC |-> "",
   BUILTIN_SUPPORT_SPI_FLASH__S6_QE_WPDIS |-> "",
   BUILTIN_SUPPORT_SPI_FLASH_VENDOR_EON |-> ""]

\* ModeDIO_ReclaimGPIOs.h: a flag that is not supplied is defined as 1
\* ("include these in the build unless explicitly declined, =0")
HeaderDefault(flag) == IF flag = "" THEN "1" ELSE flag

\* #if FLAG: an identifier that is not defined counts as 0
IfDirective(flag) == flag \notin {"", "0"}

\* the header has a default block for four of the five flags
Defined ==
  [f \in DOMAIN build |->
     IF f = "BUILTIN_SUPPORT_SPI_FLASH_VENDOR_XMC" THEN build[f]
     ELSE HeaderDefault(build[f])]

\* the case labels compiled into __spi_flash_vendor_cases
ActiveVendors ==
  (IF IfDirective(Defined.BUILTIN_SUPPORT_GIGADEVICE)
     THEN {SPI_FLASH_VENDOR_GIGADEVICE} ELSE {})
  \cup (IF IfDirective(Defined.BUILTIN_SUPPORT_MYSTERY_VENDOR_D8)
     THEN {SPI_FLASH_VENDOR_MYSTERY_D8} ELSE {})
  \cup (IF IfDirective(Defined.BUILTIN_SUPPORT_SPI_FLASH_VENDOR_XMC)
     THEN {SPI_FLASH_VENDOR_XMC} ELSE {})
  \cup (IF IfDirective(Defined.BUILTIN_SUPPORT_SPI_FLASH__S6_QE_WPDIS)
     THEN {SPI_FLASH_VENDOR_PMC, SPI_FLASH_VENDOR_MACRONIX} ELSE {})
  \cup (IF IfDirective(Defined.BUILTIN_SUPPORT_SPI_FLASH_VENDOR_EON)
     THEN {SPI_FLASH_VENDOR_EON} ELSE {})

---------------------------------------------------------------------------
(* The operation log *)

Ev(op, reg, val, nv, bits, mode) ==
  [op |-> op, reg |-> reg, val |-> val, nv |-> nv, bits |-> bits, mode |-> mode]

Logged(h, e) == [h EXCEPT !.log = Append(@, e)]

---------------------------------------------------------------------------
(* Register access: the SPI0 command layer of SpiFlashUtils.h together     *)
(* with the reaction of the flash part                                     *)

volatile_bit     == FALSE
non_volatile_bit == TRUE

\* WRDI (04h): clears the write-enable latch
spi0_flash_write_disable(h) ==
  Logged([h EXCEPT !.wel = FALSE], Ev("WRDI", 0, 0, FALSE, 0, ""))

\* RDSR1 (05h): bit 1 of the value read is the write-enable latch
spi0_flash_read_status_register_1(h) ==
  LET v == h.sr1 + (IF h.wel THEN BIT1 ELSE 0)
  IN [h |-> Logged(h, Ev("RDSR", 0, v, FALSE, 8, "")), ok |-> TRUE, val |-> v]

\* RDSR2 (35h)
spi0_flash_read_status_register_2(h) ==
  [h |-> Logged(h, Ev("RDSR", 1, h.sr2, FALSE, 8, "")), ok |-> TRUE, val |-> h.sr2]

\* RDSR3 (15h): the caller's buffer keeps its initial 0 when the read fails
spi0_flash_read_status_register_3(h) ==
  LET v == IF cfg.sr3ReadOk THEN h.sr3 ELSE 0
  IN [h |-> Logged(h, Ev("RDSR", 2, v, FALSE, 8, "")), ok |-> cfg.sr3ReadOk, val |-> v]

\* does the part carry out a status-register write of this register and width
Accepts(reg, bits) ==
  CASE reg = 0 /\ bits = 16 -> cfg.accept16
    [] reg = 0 /\ bits = 8  -> cfg.accept8sr1
    [] reg = 1              -> cfg.accept8sr2
    [] OTHER                -> cfg.sr3WriteOk

\* register contents after a write the part carries out.  A 16-bit write of
\* SR1 carries SR1 in the low byte and SR2 in the high byte; bits 0 and 1 of
\* SR1 (WIP, WEL) are status only.
Written(h, reg, val, bits) ==
  CASE reg = 0 /\ bits = 16 ->
         [h EXCEPT !.sr1 = BitAnd(val % 256, 252), !.sr2 = (val \div 256) % 256]
    [] reg = 0 /\ bits = 8  ->
         [h EXCEPT !.sr1 = BitAnd(val % 256, 252)]
    [] reg = 1 ->
         [h EXCEPT !.sr2 = val % 256,
                   !.sr3 = IF cfg.sr2ClearsSr3 THEN 0 ELSE @]
    [] OTHER ->
         [h EXCEPT !.sr3 = val % 256]

\* /WP (GPIO10) driven low blocks status-register writes on a part that
\* honours the pin: with SRP1:SRP0 = 0:1 ("srp"), or with that and QE/S9
\* clear ("qe_srp"); a part may also never look at the pin ("none")
WriteProtected(h) ==
  /\ h.pin10 = "OUTPUT" /\ h.lvl10 = 0
  /\ HasBit(h.sr1, BIT7) /\ ~HasBit(h.sr2 * 256, BIT8)
  /\ \/ cfg.wp = "srp"
     \/ cfg.wp = "qe_srp" /\ ~HasBit(h.sr2, BIT1)

\* write enable, then WRSR.  A write the part carries out clears the latch;
\* a write it rejects may leave the latch set.  The trace notes what the
\* part did with the command.
spi0_flash_write_status_register(h, reg, val, nv, bits) ==
  LET ok == Accepts(reg, bits) /\ ~WriteProtected(h)
      e  == Ev("WRSR", reg, val, nv, bits, IF ok THEN "performed" ELSE "ignored")
      h1 == IF ok THEN [Written(h, reg, val, bits) EXCEPT !.wel = FALSE]
                  ELSE [h EXCEPT !.wel = cfg.welSticks]
  IN [h |-> Logged(h1, e), ok |-> ok]

spi0_flash_write_status_register_3(h, val, nv) ==
  spi0_flash_write_status_register(h, 2, val, nv, 8)

is_WEL(h) == h.wel

pinMode(h, pin, mode) ==
  Logged(IF pin = 9 THEN [h EXCEPT !.pin9 = mode]
         ELSE IF pin = 10 THEN [h EXCEPT !.pin10 = mode]
         ELSE h,
         Ev("pinMode", pin, 0, FALSE, 0, mode))

---------------------------------------------------------------------------
(* QE reconfiguration engine: clear the latch, read, return at once when   *)
(* the bit is set, else write and verify by reading back                   *)

\* S9 (SR2 bit 1) with the 8-bit write of SR2
set_QE_bit__8_bit_sr2_write(h, nv) ==
  LET h1 == spi0_flash_write_disable(h)
      r  == spi0_flash_read_status_register_2(h1)
  IN IF HasBit(r.val, BIT1) THEN [h |-> r.h, ok |-> TRUE]
     ELSE LET w == spi0_flash_write_status_register(r.h, 1, BitOr(r.val, BIT1), nv, 8)
              v == spi0_flash_read_status_register_2(w.h)
          IN [h |-> v.h, ok |-> HasBit(v.val, BIT1)]

\* S9 with the 16-bit write of SR1 (SR1 low byte, SR2 high byte)
set_QE_bit__16_bit_sr1_write(h, nv) ==
  LET h1 == spi0_flash_write_disable(h)
      r2 == spi0_flash_read_status_register_2(h1)
  IN IF HasBit(r2.val, BIT1) THEN [h |-> r2.h, ok |-> TRUE]
     ELSE LET r1 == spi0_flash_read_status_register_1(r2.h)
              w  == spi0_flash_write_status_register(
                      r1.h, 0, BitOr(r1.val, BitOr(r2.val, BIT1) * 256), nv, 16)
              v  == spi0_flash_read_status_register_2(w.h)
          IN [h |-> v.h, ok |-> HasBit(v.val, BIT1)]

\* S6 (SR1 bit 6, QE or WPDis) with the 8-bit write of SR1
set_S6_QE_WPDis_bit(h, nv) ==
  LET h1 == spi0_flash_write_disable(h)
      r  == spi0_flash_read_status_register_1(h1)
  IN IF HasBit(r.val, BIT6) THEN [h |-> r.h, ok |-> TRUE]
     ELSE LET w == spi0_flash_write_status_register(r.h, 0, BitOr(r.val, BIT6), nv, 8)
              v == spi0_flash_read_status_register_1(w.h)
          IN [h |-> v.h, ok |-> HasBit(v.val, BIT6)]

---------------------------------------------------------------------------
(* __spi_flash_vendor_cases: one operator per case of the switch *)

\* variant: the GigaDevice case tries the 16-bit write first, like the default
VendorGigaDevice_WithFallback(h) ==
  LET a == set_QE_bit__16_bit_sr1_write(h, volatile_bit)
  IN IF ~a.ok THEN set_QE_bit__8_bit_sr2_write(a.h, volatile_bit) ELSE a

VendorGigaDevice(h) == set_QE_bit__8_bit_sr2_write(h, volatile_bit)

VendorMysteryD8(h) == set_QE_bit__8_bit_sr2_write(h, volatile_bit)

\* variant: SR3 is written back without looking at the backup read's result
VendorXMC_AlwaysRestore(h) ==
  LET r3 == spi0_flash_read_status_register_3(h)
      q  == set_QE_bit__8_bit_sr2_write(r3.h, volatile_bit)
  IN [h  |-> spi0_flash_write_status_register_3(q.h, r3.val, volatile_bit).h,
      ok |-> q.ok]

\* back up SR3, set QE, write SR3 back when the backup read was OK
VendorXMC(h) ==
  LET r3 == spi0_flash_read_status_register_3(h)
      q  == set_QE_bit__8_bit_sr2_write(r3.h, volatile_bit)
  IN IF r3.ok
     THEN [h  |-> spi0_flash_write_status_register_3(q.h, r3.val, volatile_bit).h,
           ok |-> q.ok]
     ELSE q

\* variant: the S6 families written as volatile
VendorS6_Volatile(h) == set_S6_QE_WPDis_bit(h, volatile_bit)

VendorS6(h) == set_S6_QE_WPDis_bit(h, non_volatile_bit)

\* variant: the EON case sets S9 in SR2 instead of S6 in SR1
VendorEON_WrongBit(h, _id) ==
  IF EON_S6_DEVICE = BitAnd(_id, 65535)
  THEN set_QE_bit__8_bit_sr2_write(h, volatile_bit)
  ELSE [h |-> h, ok |-> FALSE]

\* variant: `success` starts out true, so an unmatched EON part reports success
VendorEON_ReportsSuccess(h, _id) ==
  IF EON_S6_DEVICE = BitAnd(_id, 65535)
  THEN set_S6_QE_WPDis_bit(h, volatile_bit)
  ELSE [h |-> h, ok |-> TRUE]

\* variant: no `break`, an unmatched EON part falls through to the default case
VendorEON_FallThrough(h, _id) ==
  IF EON_S6_DEVICE = BitAnd(_id, 65535)
  THEN set_S6_QE_WPDis_bit(h, volatile_bit)
  ELSE LET a == set_QE_bit__16_bit_sr1_write(h, volatile_bit)
       IN IF ~a.ok THEN set_QE_bit__8_bit_sr2_write(a.h, volatile_bit) ELSE a

VendorEON(h, _id) ==
  IF EON_S6_DEVICE = BitAnd(_id, 65535)
  THEN set_S6_QE_WPDis_bit(h, volatile_bit)
  ELSE [h |-> h, ok |-> FALSE]

\* variant: the default case never tries the 8-bit SR2 write
VendorDefault_NoFallback(h) == set_QE_bit__16_bit_sr1_write(h, volatile_bit)

VendorDefault(h) ==
  LET a == set_QE_bit__16_bit_sr1_write(h, volatile_bit)
  IN IF ~a.ok THEN set_QE_bit__8_bit_sr2_write(a.h, volatile_bit) ELSE a

spi_flash_vendor_cases(h, _id) ==
  LET vendor == Vendor(_id)
      h0 == Logged(h, Ev("dispatch", 0, 0, FALSE, 0, "call"))
      r  == CASE vendor \notin ActiveVendors           -> VendorDefault(h0)
              [] vendor = SPI_FLASH_VENDOR_GIGADEVICE -> VendorGigaDevice(h0)
              [] vendor = SPI_FLASH_VENDOR_MYSTERY_D8 -> VendorMysteryD8(h0)
              [] vendor = SPI_FLASH_VENDOR_XMC        -> VendorXMC(h0)
              [] vendor \in {SPI_FLASH_VENDOR_PMC, SPI_FLASH_VENDOR_MACRONIX}
                                                      -> VendorS6(h0)
              [] vendor = SPI_FLASH_VENDOR_EON        -> VendorEON(h0, _id)
              [] OTHER                                -> VendorDefault(h0)
  IN [h |-> Logged(r.h, Ev("dispatch", 0, 0, FALSE, 0, "return")), ok |-> r.ok]

---------------------------------------------------------------------------
(* reclaim_GPIO_9_10 *)

\* variant: the set latch is detected but never cleared
LatchRecovery_NoClear ==
  /\ pc = "LatchRecovery"
  /\ pc' = "ModeCheck"
  /\ UNCHANGED <<id, quad, cfg, hw, success, retval, entry, call, build, sfdp>>

\* variant: the quad-mode test comes first, the latch is cleared only past it
LatchRecovery_UnlessQuad ==
  /\ pc = "LatchRecovery"
  /\ hw' = IF is_WEL(hw) /\ ~quad THEN spi0_flash_write_disable(hw) ELSE hw
  /\ pc' = "ModeCheck"
  /\ UNCHANGED <<id, quad, cfg, success, retval, entry, call, build, sfdp>>

\* is_WEL() / spi0_flash_write_disable() at entry
LatchRecovery ==
  /\ pc = "LatchRecovery"
  /\ hw' = IF is_WEL(hw) THEN spi0_flash_write_disable(hw) ELSE hw
  /\ pc' = "ModeCheck"
  /\ UNCHANGED <<id, quad, cfg, success, retval, entry, call, build, sfdp>>

\* variant: the quad-mode test does not return
ModeCheck_NoReturn ==
  /\ pc = "ModeCheck"
  /\ pc' = "VendorDispatch"
  /\ retval' = FALSE
  /\ UNCHANGED <<id, quad, cfg, hw, success, entry, call, build, sfdp>>

\* is_spi0_quad(): return false
ModeCheck ==
  /\ pc = "ModeCheck"
  /\ pc' = IF quad THEN "Done" ELSE "VendorDispatch"
  /\ retval' = FALSE
  /\ UNCHANGED <<id, quad, cfg, hw, success, entry, call, build, sfdp>>

\* variant: a failed dispatch is tried a second time
VendorDispatch_Retry ==
  /\ pc = "VendorDispatch"
  /\ LET r  == spi_flash_vendor_cases(hw, id)
         r2 == IF r.ok THEN r ELSE spi_flash_vendor_cases(r.h, id)
     IN /\ hw' = r2.h
        /\ success' = r2.ok
  /\ pc' = "Finalize"
  /\ UNCHANGED <<id, quad, cfg, retval, entry, call, build, sfdp>>

\* success = spi_flash_vendor_cases(_id)
VendorDispatch ==
  /\ pc = "VendorDispatch"
  /\ LET r == spi_flash_vendor_cases(hw, id)
     IN /\ hw' = r.h
        /\ success' = r.ok
  /\ pc' = "Finalize"
  /\ UNCHANGED <<id, quad, cfg, retval, entry, call, build, sfdp>>

\* variant: no write-disable after the dispatch
Finalize_NoWriteDisable ==
  /\ pc = "Finalize"
  /\ pc' = "PinSetup"
  /\ UNCHANGED <<id, quad, cfg, hw, success, retval, entry, call, build, sfdp>>

\* spi0_flash_write_disable() after the dispatch
Finalize ==
  /\ pc = "Finalize"
  /\ hw' = spi0_flash_write_disable(hw)
  /\ pc' = "PinSetup"
  /\ UNCHANGED <<id, quad, cfg, success, retval, entry, call, build, sfdp>>

\* variant: the pins are set up whatever the dispatch returned
PinSetup_Always ==
  /\ pc = "PinSetup"
  /\ hw' = pinMode(pinMode(hw, 9, "INPUT"), 10, "INPUT")
  /\ pc' = "Done"
  /\ retval' = success
  /\ UNCHANGED <<id, quad, cfg, success, entry, call, build, sfdp>>

\* if (success) { pinMode(9, INPUT); pinMode(10, INPUT); }  return success
PinSetup ==
  /\ pc = "PinSetup"
  /\ hw' = IF success THEN pinMode(pinMode(hw, 9, "INPUT"), 10, "INPUT") ELSE hw
  /\ pc' = "Done"
  /\ retval' = success
  /\ UNCHANGED <<id, quad, cfg, success, entry, call, build, sfdp>>

---------------------------------------------------------------------------
(* Initial states: any sampled flash ID, any register content, any part    *)
(* behaviour; both pins carry their flash function                         *)

Samples == <<0, 66, 128, 188, 255>>  \* 0x00, 0x42, 0x80, 0xBC, 0xFF

SampleBytes ==
  { Samples[i] : i \in 1..(IF MaxSample < Len(Samples) THEN MaxSample ELSE Len(Samples)) }

\* builds looked at: no flag supplied, and the XMC case asked for
Builds ==
  {NoFlags, [NoFlags EXCEPT !.BUILTIN_SUPPORT_SPI_FLASH_VENDOR_XMC = "1"]}

\* SFDP state of a run that reads no SFDP
NoSfdp == [used |-> FALSE]

Configs ==
  [accept16 : BOOLEAN, accept8sr1 : BOOLEAN, accept8sr2 : BOOLEAN,
   sr3ReadOk : BOOLEAN, sr3WriteOk : BOOLEAN, sr2ClearsSr3 : BOOLEAN,
   welSticks : BOOLEAN, wp : {"none"}, hold : {"none"}, short : {"none"}]

Init ==
  /\ id \in FlashIds
  /\ quad \in BOOLEAN
  /\ cfg \in Configs
  /\ \E s1 \in SampleBytes, s2 \in SampleBytes, s3 \in {0, 96}, w \in BOOLEAN :
       /\ hw = [sr1 |-> BitAnd(s1, 252), sr2 |-> s2, sr3 |-> s3, wel |-> w,
                pin9 |-> "SPECIAL", pin10 |-> "SPECIAL",
                lvl9 |-> 0, lvl10 |-> 0, ps |-> 0, log |-> << >>]
       /\ entry = [sr1 |-> BitAnd(s1, 252), sr2 |-> s2, sr3 |-> s3, wel |-> w]
  /\ pc = "LatchRecovery"
  /\ success = FALSE
  /\ retval = FALSE
  /\ call = [proc |-> "reclaim_GPIO_9_10", qe_pos |-> 0, use_16_bit_sr1 |-> FALSE,
             non_volatile |-> FALSE, use_preset |-> FALSE, pin |-> 0, qe |-> 0,
             has_8bw_sr2 |-> FALSE]
  /\ build \in Builds
  /\ Vendor(id) # SPI_FLASH_VENDOR_XMC => build = NoFlags
  /\ sfdp = NoSfdp

Next ==
  \/ LatchRecovery
  \/ ModeCheck
  \/ VendorDispatch
  \/ Finalize
  \/ PinSetup

Spec == Init /\ [][Next]_vars

---------------------------------------------------------------------------
(* Host primitives used by the diagnostic procedures *)

HIGH == 1
LOW  == 0

\* ~0u: all 32 bits set, held as the two's-complement integer of that pattern
ALL_ONES == -1

digitalWrite(h, pin, lvl) ==
  Logged(IF pin = 9 THEN [h EXCEPT !.lvl9 = lvl]
         ELSE IF pin = 10 THEN [h EXCEPT !.lvl10 = lvl]
         ELSE h,
         Ev("digitalWrite", pin, lvl, FALSE, 0, ""))

\* level seen on the pin: a short on the board wins over the output driver
digitalRead(h, pin) ==
  LET driven == IF pin = 9 THEN h.lvl9 ELSE h.lvl10
      v == IF cfg.short = "ground" THEN LOW
           ELSE IF cfg.short = "Vcc" THEN HIGH
           ELSE driven
  IN [h |-> Logged(h, Ev("digitalRead", pin, v, FALSE, 0, "")), val |-> v]

\* IRAM copy of pinMode for OUTPUT and SPECIAL
pinSpecial(h, pin, mode) == pinMode(h, pin, mode)

\* xt_rsil(level): raise the interrupt level, return the previous PS
xt_rsil(h, level) ==
  [h   |-> Logged([h EXCEPT !.ps = level], Ev("xt_rsil", 0, level, FALSE, 0, "")),
   val |-> h.ps]

xt_wsr_ps(h, ps) ==
  Logged([h EXCEPT !.ps = ps], Ev("xt_wsr_ps", 0, ps, FALSE, 0, ""))

Wait_SPI_Idle(h) == Logged(h, Ev("Wait_SPI_Idle", 0, 0, FALSE, 0, ""))

\* Serial.PRINTF_LN(...): one line of console output
Serial_PRINTF_LN(h, text) == Logged(h, Ev("Serial", 0, 0, FALSE, 0, text))

\* value with one bit cleared, v & ~bit
ClearBit(v, bit) == IF HasBit(v, bit) THEN v - bit ELSE v

\* 16-bit read of SR1 (low byte) and SR2 (high byte)
spi0_flash_read_status_registers_2B(h) ==
  LET v == h.sr1 + (IF h.wel THEN BIT1 ELSE 0) + 256 * h.sr2
  IN [h |-> Logged(h, Ev("RDSR", 0, v, FALSE, 16, "")), ok |-> TRUE, val |-> v]

---------------------------------------------------------------------------
(* TestFlashQE/WP_HOLD_Test.cpp *)

\* variant: the 16-bit value carries SR1 in the upper and SR2 in the lower byte
test_set_QE_SwappedBytes(h, qe_pos, use_16_bit_sr1, _non_volatile, use_preset) ==
  LET h0 == spi0_flash_write_disable(h)
      r2 == spi0_flash_read_status_register_2(h0)
      r1 == spi0_flash_read_status_register_1(r2.h)
      w  == spi0_flash_write_status_register(
              r1.h, 0, BitOr(r1.val * 256, BitOr(r2.val, BIT1)), _non_volatile, 16)
      v  == spi0_flash_read_status_register_2(w.h)
  IN IF ~use_preset /\ qe_pos = 9 /\ use_16_bit_sr1 /\ ~HasBit(r2.val, BIT1)
     THEN [h |-> v.h, ret |-> IF HasBit(v.val, BIT1) THEN 1 ELSE 0]
     ELSE [h |-> h0, ret |-> -1]

\* variant: the write carries the bare QE bit instead of the register
\* content read with the bit set
test_set_QE_BareBit(h, qe_pos, use_16_bit_sr1, _non_volatile, use_preset) ==
  LET h0 == spi0_flash_write_disable(h)
      r  == IF qe_pos = 9 THEN spi0_flash_read_status_register_2(h0)
            ELSE spi0_flash_read_status_register_1(h0)
      w  == IF qe_pos = 6
            THEN spi0_flash_write_status_register(r.h, 0, BIT6, _non_volatile, 8)
            ELSE IF use_16_bit_sr1
            THEN spi0_flash_write_status_register(r.h, 0, BIT1 * 256, _non_volatile, 16)
            ELSE spi0_flash_write_status_register(r.h, 1, BIT1, _non_volatile, 8)
      v  == IF qe_pos = 9 THEN spi0_flash_read_status_register_2(w.h)
            ELSE spi0_flash_read_status_register_1(w.h)
      qe == IF qe_pos = 9 THEN BIT1 ELSE BIT6
  IN IF use_preset \/ qe_pos \notin {9, 6} THEN [h |-> h0, ret |-> -1]
     ELSE IF HasBit(r.val, qe) THEN [h |-> r.h, ret |-> 1]
     ELSE [h |-> v.h, ret |-> IF HasBit(v.val, qe) THEN 1 ELSE 0]

\* returns the QE bit (1, 0) after setting it, or as found with use_preset;
\* -1 when qe_pos is neither 9 nor 6
test_set_QE(h, qe_pos, use_16_bit_sr1, _non_volatile, use_preset) ==
  LET h0 == spi0_flash_write_disable(h)
  IN IF use_preset THEN
       IF qe_pos = 9 THEN
         LET r == spi0_flash_read_status_register_2(h0)
         IN [h   |-> Serial_PRINTF_LN(r.h, "QE used"),
             ret |-> IF HasBit(r.val, BIT1) THEN 1 ELSE 0]
       ELSE IF qe_pos = 6 THEN
         LET r == spi0_flash_read_status_register_1(h0)
         IN [h   |-> Serial_PRINTF_LN(r.h, "QE used"),
             ret |-> IF HasBit(r.val, BIT6) THEN 1 ELSE 0]
       ELSE [h |-> h0, ret |-> -1]
     ELSE IF qe_pos = 9 THEN
       LET r2 == spi0_flash_read_status_register_2(h0)
       IN IF HasBit(r2.val, BIT1)
          THEN [h |-> Serial_PRINTF_LN(r2.h, "QE already set"), ret |-> 1]
          ELSE LET sr2 == BitOr(r2.val, BIT1)
                   r1  == spi0_flash_read_status_register_1(r2.h)
                   w   == IF use_16_bit_sr1
                          THEN spi0_flash_write_status_register(
                                 r1.h, 0, BitOr(r1.val, sr2 * 256), _non_volatile, 16)
                          ELSE spi0_flash_write_status_register(
                                 r2.h, 1, sr2, _non_volatile, 8)
                   v   == spi0_flash_read_status_register_2(w.h)
               IN [h |-> v.h, ret |-> IF HasBit(v.val, BIT1) THEN 1 ELSE 0]
     ELSE IF qe_pos = 6 THEN
       LET r1 == spi0_flash_read_status_register_1(h0)
       IN IF HasBit(r1.val, BIT6)
          THEN [h |-> Serial_PRINTF_LN(r1.h, "QE already set"), ret |-> 1]
          ELSE LET w == spi0_flash_write_status_register(
                          r1.h, 0, BitOr(r1.val, BIT6), _non_volatile, 8)
                   v == spi0_flash_read_status_register_1(w.h)
               IN [h |-> v.h, ret |-> IF HasBit(v.val, BIT6) THEN 1 ELSE 0]
     ELSE [h |-> h0, ret |-> -1]

\* variant: without a QE bit only the marker bit is written
testFlashWrite_MarkerOnly(h, qe_pos, use_16_bit_sr1, _non_volatile) ==
  LET h0   == spi0_flash_write_disable(h)
      bits == IF use_16_bit_sr1 /\ qe_pos # 6 THEN 16 ELSE 8
      r1   == spi0_flash_read_status_register_1(h0)
      qe   == IF qe_pos = 6 THEN BitAnd(r1.val, BIT6) ELSE 0
      w1   == spi0_flash_write_status_register(r1.h, 0, BitOr(qe, BIT2), _non_volatile, bits)
      vr   == spi0_flash_read_status_register_1(w1.h)
      w2   == spi0_flash_write_status_register(vr.h, 0, qe, _non_volatile, bits)
  IN [h |-> w2.h, test |-> HasBit(vr.val, BIT2)]

\* set the marker bit PM0 (SR1 bit 2), read it back, clear it again
testFlashWrite(h, qe_pos, use_16_bit_sr1, _non_volatile) ==
  LET h0   == spi0_flash_write_disable(h)
      bits == IF use_16_bit_sr1 /\ qe_pos # 6 THEN 16 ELSE 8
      r1   == spi0_flash_read_status_register_1(h0)
      \* reads of SR2: always for S9, only for the 16-bit write without QE bit
      r2   == IF qe_pos = 9 \/ (qe_pos = 255 /\ use_16_bit_sr1)
              THEN spi0_flash_read_status_register_2(r1.h)
              ELSE [h |-> r1.h, ok |-> TRUE, val |-> 0]
      sr1  == IF qe_pos = 9 THEN BitOr(BitAnd(r1.val, BIT7), BIT2)
              ELSE IF qe_pos = 6 THEN BitOr(BitAnd(r1.val, BIT6), BIT2)
              ELSE BitOr(r1.val, BIT2)
      sr2  == IF qe_pos = 9 THEN BitAnd(r2.val, BIT1) ELSE r2.val
      v1   == IF bits = 16 THEN BitOr(sr1, sr2 * 256) ELSE sr1
      w1   == spi0_flash_write_status_register(r2.h, 0, v1, _non_volatile, bits)
      vr   == spi0_flash_read_status_register_1(w1.h)
      w2   == spi0_flash_write_status_register(
                vr.h, 0, ClearBit(v1, BIT2), _non_volatile, bits)
  IN IF qe_pos \in {9, 6, 255}
     THEN [h |-> w2.h, test |-> HasBit(vr.val, BIT2)]
     ELSE [h |-> h0, test |-> FALSE]

\* SRP1:SRP0 of a QE/S9 part, 0 otherwise
get_SRP10(h, qe_pos) ==
  IF qe_pos # 9 THEN [h |-> h, val |-> 0]
  ELSE LET r == spi0_flash_read_status_registers_2B(h)
       IN [h |-> r.h, val |-> (r.val \div 128) % 4]

\* bool testOutputGPIO10(qe_pos, use_16_bit_sr1, _non_volatile, use_preset)
testOutputGPIO10(h, qe_pos, use_16_bit_sr1, _non_volatile, use_preset) ==
  LET h1 == Serial_PRINTF_LN(h, "Run verification test for pin function /WP disable")
      h2 == pinMode(digitalWrite(h1, 10, HIGH), 10, "OUTPUT")
      q  == test_set_QE(h2, qe_pos, use_16_bit_sr1, _non_volatile, use_preset)
      s  == get_SRP10(q.h, qe_pos)
      h3 == Serial_PRINTF_LN(
              IF qe_pos = 255 /\ use_preset THEN s.h
              ELSE Serial_PRINTF_LN(s.h, "Test Write: GPIO10 as OUTPUT"),
              "Test Write: using Status Register")
      t1 == testFlashWrite(h3, qe_pos, use_16_bit_sr1, _non_volatile)
      h4 == Serial_PRINTF_LN(t1.h, "Test Write: With /WP set HIGH")
      h5 == digitalWrite(h4, 10, LOW)
      t2 == testFlashWrite(h5, qe_pos, use_16_bit_sr1, _non_volatile)
      h6 == Serial_PRINTF_LN(t2.h, "Test Write: With /WP set LOW")
  IN IF qe_pos \notin {9, 6, 255}
     THEN [h |-> Serial_PRINTF_LN(h1, "QE bit field specification undefined"),
           ret |-> FALSE]
     ELSE IF qe_pos # 255 /\ q.ret = -1
     THEN [h |-> Serial_PRINTF_LN(q.h, "Test Write: set QE bit - failed"),
           ret |-> FALSE]
     ELSE [h |-> pinMode(h6, 10, "SPECIAL"), ret |-> t2.test]

\* uint32_t test_set_SRP1_SRP0_clear_QE(qe_pos, use_16_bit_sr1, _non_volatile)
\* The test that selects the result looks at the local sr1, which holds the
\* constant BIT7 written, not at the value read back.
test_set_SRP1_SRP0_clear_QE(h, qe_pos, use_16_bit_sr1, _non_volatile) ==
  LET h1  == spi0_flash_write_disable(h)
      h2  == pinMode(digitalWrite(h1, 10, HIGH), 10, "OUTPUT")
      r1  == spi0_flash_read_status_register_1(h2)
      h3  == IF BIT7 = BitAnd(BIT7, r1.val)
             THEN Serial_PRINTF_LN(r1.h, "SRP0 already set.") ELSE r1.h
      sr1 == BIT7
      w   == IF use_16_bit_sr1
             THEN spi0_flash_write_status_register(h3, 0, sr1, _non_volatile, 16).h
             ELSE LET a == spi0_flash_write_status_register(h3, 1, 0, _non_volatile, 8)
                      b == spi0_flash_write_status_register(a.h, 0, sr1, _non_volatile, 8)
                  IN spi0_flash_write_status_register(b.h, 1, 0, _non_volatile, 8).h
      v1  == spi0_flash_read_status_register_1(w)
      v2  == spi0_flash_read_status_register_2(v1.h)
      sr21 == BitOr(BitAnd(v1.val, 252), v2.val * 256)
      res  == IF BIT7 = BitAnd(BIT8 + BIT7, sr1) THEN ClearBit(sr21, BIT7)
              ELSE ALL_ONES
  IN IF qe_pos # 9
     THEN [h |-> Logged(h, Ev("panic", 0, 0, FALSE, 0, "")), ret |-> 0, panic |-> TRUE]
     ELSE [h |-> pinMode(v2.h, 10, "SPECIAL"), ret |-> res, panic |-> FALSE]

\* variant: the pin is left as it is at the end
test_clear_SRP1_SRP0_QE_NoRestore(h, has_8bw_sr2, use_16_bit_sr1, _non_volatile) ==
  LET h2 == pinMode(digitalWrite(h, 10, HIGH), 10, "OUTPUT")
      w  == spi0_flash_write_status_register(
              h2, 0, 0, _non_volatile, IF use_16_bit_sr1 THEN 16 ELSE 8).h
      v1 == spi0_flash_read_status_register_1(w)
  IN [h |-> v1.h, ret |-> BitAnd(v1.val, 252)]

\* uint32_t test_clear_SRP1_SRP0_QE(has_8bw_sr2, use_16_bit_sr1, _non_volatile)
\* Lines 196-197, `uint32_t` followed by `spi0_flash_write_disable();`, are
\* the declaration of a function, not a call: no write-disable is issued.
test_clear_SRP1_SRP0_QE(h, has_8bw_sr2, use_16_bit_sr1, _non_volatile) ==
  LET h2 == pinMode(digitalWrite(h, 10, HIGH), 10, "OUTPUT")
      w  == IF use_16_bit_sr1
            THEN spi0_flash_write_status_register(h2, 0, 0, _non_volatile, 16).h
            ELSE LET a == spi0_flash_write_status_register(h2, 0, 0, _non_volatile, 8)
                 IN IF has_8bw_sr2
                    THEN LET b == spi0_flash_write_status_register(
                                    a.h, 1, 0, _non_volatile, 8)
                         IN spi0_flash_write_status_register(
                              b.h, 0, 0, _non_volatile, 8).h
                    ELSE a.h
      v1 == spi0_flash_read_status_register_1(w)
      v2 == IF has_8bw_sr2 THEN spi0_flash_read_status_register_2(v1.h)
            ELSE [h |-> v1.h, ok |-> TRUE, val |-> 0]
  IN [h   |-> pinMode(v2.h, 10, "SPECIAL"),
      ret |-> BitOr(BitAnd(v1.val, 252), v2.val * 256)]

\* variant: console output from inside the critical section
test_GPIO_pin_short_PrintInside(h, pin) ==
  LET a  == xt_rsil(h, 15)
      h1 == Wait_SPI_Idle(a.h)
      h2 == pinSpecial(digitalWrite(h1, pin, HIGH), pin, "OUTPUT")
      r1 == digitalRead(h2, pin)
      h3 == Serial_PRINTF_LN(r1.h, "digitalWrite HIGH test")
      r2 == digitalRead(digitalWrite(h3, pin, LOW), pin)
      h4 == pinSpecial(r2.h, pin, "SPECIAL")
  IN [h |-> xt_wsr_ps(h4, a.val), ret |-> r1.val = HIGH /\ r2.val = LOW]

\* bool IRAM_ATTR test_GPIO_pin_short(uint8_t pin)
test_GPIO_pin_short(h, pin) ==
  LET a     == xt_rsil(h, 15)
      h1    == Wait_SPI_Idle(a.h)
      h2    == pinSpecial(digitalWrite(h1, pin, HIGH), pin, "OUTPUT")
      r1    == digitalRead(h2, pin)
      pass1 == HIGH = r1.val
      r2    == digitalRead(digitalWrite(r1.h, pin, LOW), pin)
      pass2 == LOW = r2.val
      h3    == pinSpecial(r2.h, pin, "SPECIAL")
      h4    == xt_wsr_ps(h3, a.val)
      h5    == Serial_PRINTF_LN(h4, "digitalWrite HIGH test")
      h6    == IF ~pass1 THEN Serial_PRINTF_LN(h5, "has a ground short") ELSE h5
      h7    == Serial_PRINTF_LN(h6, "digitalWrite LOW test")
      h8    == IF ~pass2 THEN Serial_PRINTF_LN(h7, "has a Vcc short") ELSE h7
  IN [h |-> h8, ret |-> pass1 /\ pass2]

\* /HOLD (GPIO9) driven low stalls the part when it honours the pin: always,
\* or only while its QE bit (S9 or S6) is clear; a part may have no /HOLD
HoldAsserted(h) ==
  /\ h.pin9 = "OUTPUT" /\ h.lvl9 = LOW
  /\ \/ cfg.hold = "always"
     \/ cfg.hold = "unlessS9" /\ ~HasBit(h.sr2, BIT1)
     \/ cfg.hold = "unlessS6" /\ ~HasBit(h.sr1, BIT6)

---------------------------------------------------------------------------
(* Calls of the diagnostic procedures *)

TestGpioPinShort ==
  /\ pc = "Call" /\ call.proc = "test_GPIO_pin_short"
  /\ LET r == test_GPIO_pin_short(hw, call.pin)
     IN hw' = r.h /\ retval' = r.ret
  /\ pc' = "Done"
  /\ UNCHANGED <<id, quad, cfg, success, entry, call, build, sfdp>>

\* retval is the uint32_t result; ESP.panic-style abort for qe_pos other than 9
TestSetSRP1SRP0ClearQE ==
  /\ pc = "Call" /\ call.proc = "test_set_SRP1_SRP0_clear_QE"
  /\ LET r == test_set_SRP1_SRP0_clear_QE(
                hw, call.qe_pos, call.use_16_bit_sr1, call.non_volatile)
     IN /\ hw' = r.h
        /\ retval' = r.ret
        /\ pc' = IF r.panic THEN "Panic" ELSE "Done"
  /\ UNCHANGED <<id, quad, cfg, success, entry, call, build, sfdp>>

TestClearSRP1SRP0QE ==
  /\ pc = "Call" /\ call.proc = "test_clear_SRP1_SRP0_QE"
  /\ LET r == test_clear_SRP1_SRP0_QE(
                hw, call.has_8bw_sr2, call.use_16_bit_sr1, call.non_volatile)
     IN hw' = r.h /\ retval' = r.ret
  /\ pc' = "Done"
  /\ UNCHANGED <<id, quad, cfg, success, entry, call, build, sfdp>>

TestOutputGPIO10 ==
  /\ pc = "Call" /\ call.proc = "testOutputGPIO10"
  /\ LET r == testOutputGPIO10(hw, call.qe_pos, call.use_16_bit_sr1,
                               call.non_volatile, call.use_preset)
     IN hw' = r.h /\ retval' = r.ret
  /\ pc' = "Done"
  /\ UNCHANGED <<id, quad, cfg, success, entry, call, build, sfdp>>

\* testOutputGPIO9: qe_pos is none of 9, 6, 0xFF
TestOutputGPIO9_Reject ==
  /\ pc = "Call" /\ call.proc = "testOutputGPIO9"
  /\ call.qe_pos \notin {9, 6, 255}
  /\ hw' = Serial_PRINTF_LN(
             Serial_PRINTF_LN(hw, "Run test to confirm pin function /HOLD is disabled"),
             "QE bit field specification undefined")
  /\ retval' = FALSE
  /\ pc' = "Done"
  /\ UNCHANGED <<id, quad, cfg, success, entry, call, build, sfdp>>

\* variant: the pin is driven with interrupts suspended
TestOutputGPIO9_Drive_Suspended ==
  /\ pc = "Call" /\ call.proc = "testOutputGPIO9"
  /\ call.qe_pos \in {9, 6, 255}
  /\ LET q == test_set_QE(hw, call.qe_pos, call.use_16_bit_sr1,
                          call.non_volatile, call.use_preset)
     IN /\ hw' = digitalWrite(pinMode(xt_rsil(q.h, 15).h, 9, "OUTPUT"), 9, LOW)
        /\ call' = [call EXCEPT !.qe = q.ret]
  /\ pc' = "HoldLow"
  /\ UNCHANGED <<id, quad, cfg, success, retval, entry, build, sfdp>>

\* variant: GPIO9 is driven low before the QE bit is dealt with
TestOutputGPIO9_Drive_PinFirst ==
  /\ pc = "Call" /\ call.proc = "testOutputGPIO9"
  /\ call.qe_pos \in {9, 6, 255}
  /\ LET q == test_set_QE(digitalWrite(pinMode(hw, 9, "OUTPUT"), 9, LOW),
                          call.qe_pos, call.use_16_bit_sr1,
                          call.non_volatile, call.use_preset)
     IN /\ hw' = q.h
        /\ call' = [call EXCEPT !.qe = q.ret]
  /\ pc' = "HoldLow"
  /\ UNCHANGED <<id, quad, cfg, success, retval, entry, build, sfdp>>

\* testOutputGPIO9 up to digitalWrite(9u, LOW)
TestOutputGPIO9_Drive ==
  /\ pc = "Call" /\ call.proc = "testOutputGPIO9"
  /\ call.qe_pos \in {9, 6, 255}
  /\ LET h1 == Serial_PRINTF_LN(hw, "Run test to confirm pin function /HOLD is disabled")
         q  == test_set_QE(h1, call.qe_pos, call.use_16_bit_sr1,
                           call.non_volatile, call.use_preset)
         h2 == IF 0 <= q.ret
               THEN Serial_PRINTF_LN(q.h, "Verify /HOLD is disabled by Status Register QE")
               ELSE q.h
         h3 == Serial_PRINTF_LN(h2, "Change GPIO9 to OUTPUT and set LOW.")
     IN /\ hw' = digitalWrite(pinMode(h3, 9, "OUTPUT"), 9, LOW)
        /\ call' = [call EXCEPT !.qe = q.ret]
  /\ pc' = "HoldLow"
  /\ UNCHANGED <<id, quad, cfg, success, retval, entry, build, sfdp>>

\* the part honours /HOLD: flash reads stall and the hardware watchdog resets
TestOutputGPIO9_Crash ==
  /\ pc = "HoldLow"
  /\ HoldAsserted(hw)
  /\ pc' = "Crashed"
  /\ UNCHANGED <<id, quad, cfg, hw, success, retval, entry, call, build, sfdp>>

\* testOutputGPIO9 after digitalWrite(9u, LOW), no reset
TestOutputGPIO9_Finish ==
  /\ pc = "HoldLow"
  /\ ~HoldAsserted(hw)
  /\ hw' = pinMode(
             Serial_PRINTF_LN(hw,
               IF 0 > call.qe THEN "passed - current settings worked."
               ELSE IF call.qe # 0 THEN "passed - bit QE worked."
               ELSE "Unexpected results. QE=0 and we did not crash."),
             9, "SPECIAL")
  /\ retval' = TRUE
  /\ pc' = "Done"
  /\ UNCHANGED <<id, quad, cfg, success, entry, call, build, sfdp>>

\* initial register bytes of the diagnostic runs: the samples and one with
\* SRP0 and the marker bit PM0 set
TestBytes == SampleBytes \cup {BitOr(BIT7, BIT2)}

TestProcs ==
  {"test_GPIO_pin_short", "test_set_SRP1_SRP0_clear_QE",
   "test_clear_SRP1_SRP0_QE", "testOutputGPIO10", "testOutputGPIO9"}

\* qe_pos values handed in: the three defined ones and an undefined one
QePositions == {9, 6, 255, 7}

Calls ==
  { c \in [proc : TestProcs, qe_pos : QePositions, use_16_bit_sr1 : BOOLEAN,
           non_volatile : BOOLEAN, use_preset : BOOLEAN, pin : {0, 9, 10}, qe : {0},
           has_8bw_sr2 : BOOLEAN] :
      /\ c.proc # "test_clear_SRP1_SRP0_QE" => ~c.has_8bw_sr2
      /\ c.proc = "test_clear_SRP1_SRP0_QE" => c.qe_pos = 9 /\ ~c.use_preset
      /\ (c.proc = "test_GPIO_pin_short") = (c.pin # 0)
      /\ c.proc = "test_GPIO_pin_short" =>
           c.qe_pos = 9 /\ ~c.use_16_bit_sr1 /\ ~c.non_volatile /\ ~c.use_preset
      /\ c.proc = "test_set_SRP1_SRP0_clear_QE" => c.qe_pos \in {9, 6} /\ ~c.use_preset }

\* the part and board a diagnostic runs on
TestConfigs(proc) ==
  { c \in [accept16 : BOOLEAN, accept8sr1 : BOOLEAN, accept8sr2 : BOOLEAN,
           sr3ReadOk : {TRUE}, sr3WriteOk : {TRUE}, sr2ClearsSr3 : {FALSE},
           welSticks : BOOLEAN,
           wp : {"none", "srp", "qe_srp"},
           hold : {"none", "always", "unlessS9", "unlessS6"},
           short : {"none", "ground", "Vcc"}] :
      /\ proc \notin {"testOutputGPIO10", "test_set_SRP1_SRP0_clear_QE",
                      "test_clear_SRP1_SRP0_QE"} => c.wp = "none"
      /\ proc # "testOutputGPIO9" => c.hold = "none"
      /\ proc # "test_GPIO_pin_short" => c.short = "none"
      /\ proc = "test_GPIO_pin_short" =>
           c.accept16 /\ c.accept8sr1 /\ c.accept8sr2 /\ ~c.welSticks }

InitTest ==
  /\ id = 0
  /\ quad = FALSE
  /\ call \in Calls
  /\ cfg \in TestConfigs(call.proc)
  /\ \E s1 \in TestBytes, s2 \in TestBytes, w \in BOOLEAN :
       /\ call.proc = "test_GPIO_pin_short" => s1 = 0 /\ s2 = 0 /\ ~w
       /\ hw = [sr1 |-> BitAnd(s1, 252), sr2 |-> s2, sr3 |-> 0, wel |-> w,
                pin9 |-> "SPECIAL", pin10 |-> "SPECIAL",
                lvl9 |-> LOW, lvl10 |-> LOW, ps |-> 0, log |-> << >>]
       /\ entry = [sr1 |-> BitAnd(s1, 252), sr2 |-> s2, sr3 |-> 0, wel |-> w]
  /\ pc = "Call"
  /\ success = FALSE
  /\ retval = FALSE
  /\ build = NoFlags
  /\ sfdp = NoSfdp

NextTest ==
  \/ TestGpioPinShort
  \/ TestSetSRP1SRP0ClearQE
  \/ TestClearSRP1SRP0QE
  \/ TestOutputGPIO10
  \/ TestOutputGPIO9_Reject
  \/ TestOutputGPIO9_Drive
  \/ TestOutputGPIO9_Crash
  \/ TestOutputGPIO9_Finish

SpecTest == InitTest /\ [][NextTest]_vars

---------------------------------------------------------------------------
(* SfdpRevInfo.cpp *)

\* "SFDP" read as a little-endian 32-bit word, 0x50444653
SFDP_SIGNATURE == 1346651731

\* memset(&rev.u32[0], 0, sizeof(SfdpRevInfo))
ZeroRev ==
  [hdr_major |-> 0, hdr_minor |-> 0, num_parm_hdrs |-> 0,
   parm_major |-> 0, parm_minor |-> 0, sz_dw |-> 0, tbl_ptr |-> 0]

\* Read SFDP (5Ah): sz bytes from addr; the result is the part's
spi0_flash_read_sfdp(h, addr, sz, ok) ==
  [h |-> Logged(h, Ev("RDSFDP", addr, sz, FALSE, 0, "")), ok |-> ok]

\* variant: the header is taken without a look at its signature
get_sfdp_revision_AnySignature(h) ==
  LET r0 == spi0_flash_read_sfdp(h, 0, 8, sfdp.hdrOk)
      r1 == spi0_flash_read_sfdp(r0.h, 8, 8, sfdp.parmOk)
  IN IF r0.ok
     THEN [h |-> r1.h,
           rev |-> [ZeroRev EXCEPT !.hdr_major = sfdp.hdr_major,
                                   !.hdr_minor = sfdp.hdr_minor,
                                   !.num_parm_hdrs = sfdp.num_parm_hdrs,
                                   !.tbl_ptr = IF r1.ok THEN sfdp.tbl_ptr ELSE 0]]
     ELSE [h |-> r0.h, rev |-> ZeroRev]

\* SfdpRevInfo get_sfdp_revision()
get_sfdp_revision(h) ==
  LET r0   == spi0_flash_read_sfdp(h, 0, 8, sfdp.hdrOk)
      rev1 == [ZeroRev EXCEPT !.hdr_major = sfdp.hdr_major,
                              !.hdr_minor = sfdp.hdr_minor,
                              !.num_parm_hdrs = sfdp.num_parm_hdrs]
      r1   == spi0_flash_read_sfdp(r0.h, 8, 8, sfdp.parmOk)
  IN IF r0.ok /\ SFDP_SIGNATURE = sfdp.signature
     THEN [h   |-> r1.h,
           rev |-> IF r1.ok
                   THEN [rev1 EXCEPT !.parm_major = sfdp.parm_major,
                                     !.parm_minor = sfdp.parm_minor,
                                     !.sz_dw = sfdp.sz_dw,
                                     !.tbl_ptr = sfdp.tbl_ptr]
                   ELSE rev1]
     ELSE [h |-> r0.h, rev |-> ZeroRev]

\* malloc(sz): the heap decides; live counts the buffers not yet freed
malloc(h, sz) ==
  [h  |-> Logged(h, Ev("malloc", 0, sz, FALSE, 0, "")), ok |-> sfdp.mallocOk]

free(h) == Logged(h, Ev("free", 0, 0, FALSE, 0, ""))

\* variant: the buffer is kept when the table read fails
get_sfdp_basic_NoFree(h, revNull) ==
  LET g == get_sfdp_revision(h)
      m == malloc(g.h, g.rev.sz_dw * 4)
      t == spi0_flash_read_sfdp(m.h, g.rev.tbl_ptr, g.rev.sz_dw * 4, sfdp.tblOk)
  IN IF revNull \/ g.rev.tbl_ptr = 0 \/ ~m.ok
     THEN [h |-> h, ret |-> "nullptr", rev |-> sfdp.rev, live |-> 0]
     ELSE [h |-> t.h, ret |-> IF t.ok THEN "dw" ELSE "nullptr", rev |-> g.rev, live |-> 1]

\* uint32_t* get_sfdp_basic(SfdpRevInfo *rev)
get_sfdp_basic(h, revNull) ==
  LET g == get_sfdp_revision(h)
      m == malloc(g.h, g.rev.sz_dw * 4)
      t == spi0_flash_read_sfdp(m.h, g.rev.tbl_ptr, g.rev.sz_dw * 4, sfdp.tblOk)
  IN IF revNull
     THEN [h |-> h, ret |-> "nullptr", rev |-> sfdp.rev, live |-> 0]
     ELSE IF 0 = g.rev.tbl_ptr
     THEN [h |-> g.h, ret |-> "nullptr", rev |-> g.rev, live |-> 0]
     ELSE IF ~m.ok
     THEN [h |-> m.h, ret |-> "nullptr", rev |-> g.rev, live |-> 0]
     ELSE IF t.ok
     THEN [h |-> t.h, ret |-> "dw", rev |-> g.rev, live |-> 1]
     ELSE [h |-> free(t.h), ret |-> "nullptr", rev |-> g.rev, live |-> 0]

GetSfdpRevision ==
  /\ pc = "Call" /\ call.proc = "get_sfdp_revision"
  /\ LET r == get_sfdp_revision(hw)
     IN hw' = r.h /\ retval' = r.rev
  /\ pc' = "Done"
  /\ UNCHANGED <<id, quad, cfg, success, entry, call, build, sfdp>>

GetSfdpBasic ==
  /\ pc = "Call" /\ call.proc = "get_sfdp_basic"
  /\ LET r == get_sfdp_basic(hw, sfdp.revNull)
     IN /\ hw' = r.h
        /\ retval' = r.ret
        /\ sfdp' = [sfdp EXCEPT !.rev = r.rev, !.live = r.live]
  /\ pc' = "Done"
  /\ UNCHANGED <<id, quad, cfg, success, entry, call, build>>

\* what the caller's SfdpRevInfo holds before the call
StaleRev == [ZeroRev EXCEPT !.hdr_major = 1, !.tbl_ptr = 48]

\* SFDP contents of the part (or what the buffers hold when a read fails),
\* results of the reads and of malloc, and the argument of get_sfdp_basic
SfdpStates ==
  [used : {TRUE},
   hdrOk : BOOLEAN, signature : {SFDP_SIGNATURE, SFDP_SIGNATURE - 1, 0},
   hdr_major : {1}, hdr_minor : {0, 6}, num_parm_hdrs : {0, 1},
   parmOk : BOOLEAN, parm_major : {1}, parm_minor : {0, 6},
   sz_dw : {0, 9}, tbl_ptr : {0, 48},
   tblOk : BOOLEAN, mallocOk : BOOLEAN, revNull : BOOLEAN,
   rev : {StaleRev}, live : {0}]

InitSfdp ==
  /\ id = 0
  /\ quad = FALSE
  /\ call \in [proc : {"get_sfdp_revision", "get_sfdp_basic"}, qe_pos : {0},
               use_16_bit_sr1 : {FALSE}, non_volatile : {FALSE},
               use_preset : {FALSE}, pin : {0}, qe : {0}, has_8bw_sr2 : {FALSE}]
  /\ sfdp \in SfdpStates
  /\ call.proc = "get_sfdp_revision" => ~sfdp.revNull /\ sfdp.tblOk /\ sfdp.mallocOk
  /\ cfg = [accept16 |-> TRUE, accept8sr1 |-> TRUE, accept8sr2 |-> TRUE,
            sr3ReadOk |-> TRUE, sr3WriteOk |-> TRUE, sr2ClearsSr3 |-> FALSE,
            welSticks |-> FALSE, wp |-> "none", hold |-> "none", short |-> "none"]
  /\ hw = [sr1 |-> 0, sr2 |-> 0, sr3 |-> 0, wel |-> FALSE,
           pin9 |-> "SPECIAL", pin10 |-> "SPECIAL",
           lvl9 |-> LOW, lvl10 |-> LOW, ps |-> 0, log |-> << >>]
  /\ entry = [sr1 |-> 0, sr2 |-> 0, sr3 |-> 0, wel |-> FALSE]
  /\ pc = "Call"
  /\ success = FALSE
  /\ retval = FALSE
  /\ build = NoFlags

NextSfdp ==
  \/ GetSfdpRevision
  \/ GetSfdpBasic

SpecSfdp == InitSfdp /\ [][NextSfdp]_vars

---------------------------------------------------------------------------
(* Observations on a run *)

\* the call has returned; retval is the value the caller got
Returned == pc = "Done"

LogIdx == 1..Len(hw.log)
IsWrite(i)   == hw.log[i].op = "WRSR"
IsWrDis(i)   == hw.log[i].op = "WRDI"
IsPinMode(i) == hw.log[i].op = "pinMode"
IsCall(i)    == hw.log[i].op = "dispatch" /\ hw.log[i].mode = "call"
IsRet(i)     == hw.log[i].op = "dispatch" /\ hw.log[i].mode = "return"

\* a pinMode call on GPIO9 or GPIO10
IsPin9or10(i) == IsPinMode(i) /\ hw.log[i].reg \in {9, 10}
NoPinCall     == \A i \in LogIdx : ~IsPin9or10(i)
NoWrite       == \A i \in LogIdx : ~IsWrite(i)
Dispatched    == \E i \in LogIdx : IsRet(i)
PinsReclaimed == hw.pin9 = "INPUT" /\ hw.pin10 = "INPUT"
PinsUntouched == hw.pin9 = "SPECIAL" /\ hw.pin10 = "SPECIAL"

---------------------------------------------------------------------------
(* C1: reclaim_GPIO_9_10 calls pinMode on GPIO9/GPIO10 only after the      *)
(* vendor dispatch returned success; a run that fails (quad mode, vendor   *)
(* not handled, verification failed) makes no pinMode call on either pin,  *)
(* and the function returns true exactly in the runs where both pins were  *)
(* set to INPUT.                                                           *)
C1_PinsIffDispatchSuccess ==
  /\ ~NoPinCall => (Dispatched /\ success)
  /\ Returned => (retval <=> PinsReclaimed)
  /\ Returned => (retval <=> (Dispatched /\ success))
  /\ (Returned /\ ~retval) => (NoPinCall /\ PinsUntouched)

C1_Witness ==
  /\ Returned /\ retval /\ PinsReclaimed
  /\ \E i \in LogIdx : IsWrite(i)

---------------------------------------------------------------------------
(* C2: with quad transfer mode active, reclaim_GPIO_9_10 returns false     *)
(* with no status-register write issued, the vendor dispatch never called  *)
(* and GPIO9/GPIO10 left in their flash function, for every flash ID and   *)
(* every register content.                                                 *)
C2_QuadModeRejected ==
  quad =>
    /\ NoWrite
    /\ \A i \in LogIdx : ~IsCall(i) /\ ~IsRet(i)
    /\ NoPinCall /\ PinsUntouched
    /\ pc \in {"LatchRecovery", "ModeCheck", "Done"}
    /\ Returned => ~retval

C2_Witness ==
  quad /\ Returned /\ entry.wel /\ HasBit(entry.sr2, BIT1) = FALSE

---------------------------------------------------------------------------
(* C3: at every return of reclaim_GPIO_9_10 (quad-mode return, failed      *)
(* dispatch, successful dispatch) the write-enable latch is clear,         *)
(* whatever it was at entry and whatever a rejected write left behind.     *)
C3_LatchClearAtReturn ==
  Returned => ~hw.wel

\* a run whose last write was rejected by a part that keeps the latch set
C3_Witness ==
  /\ Returned /\ ~retval /\ entry.wel /\ cfg.welSticks
  /\ \E i \in LogIdx :
       /\ IsWrite(i) /\ ~Accepts(hw.log[i].reg, hw.log[i].bits)
       /\ \A j \in LogIdx : (j > i /\ j < Len(hw.log)) => ~IsWrDis(j)

---------------------------------------------------------------------------
(* C4: when the latch is set at entry, reclaim_GPIO_9_10 itself issues a   *)
(* write-disable before the dispatch is called, hence before the first     *)
(* status-register write of the run, and issues another write-disable      *)
(* after the dispatch returned and before any pinMode call.                *)
C4_LatchClearedBeforeWriteAndFinalize ==
  entry.wel =>
    /\ \A i \in LogIdx : (IsWrite(i) \/ IsCall(i)) =>
         \E j \in 1..(i - 1) :
           /\ IsWrDis(j)
           /\ \A k \in 1..j : ~IsCall(k)
    /\ \A p \in LogIdx : IsPin9or10(p) =>
         \E r \in 1..(p - 1) : \E j \in (r + 1)..(p - 1) :
           IsRet(r) /\ IsWrDis(j)
    /\ (pc \in {"PinSetup", "Done"} /\ ~quad) =>
         \E r \in LogIdx : \E j \in (r + 1)..Len(hw.log) :
           IsRet(r) /\ IsWrDis(j)

C4_Witness ==
  /\ entry.wel /\ Returned /\ retval
  /\ \E i \in LogIdx : IsWrite(i)
  /\ \E p \in LogIdx : IsPin9or10(p)

---------------------------------------------------------------------------
(* How the flash ID of the run is dispatched *)

EonMatch     == Vendor(id) = SPI_FLASH_VENDOR_EON /\ BitAnd(id, 65535) = EON_S6_DEVICE
Unmatched    == Vendor(id) = SPI_FLASH_VENDOR_EON /\ ~EonMatch
S6Family     == Vendor(id) \in {SPI_FLASH_VENDOR_PMC, SPI_FLASH_VENDOR_MACRONIX}
DefaultPath  == Vendor(id) \notin ActiveVendors
IsXMC        == Vendor(id) = SPI_FLASH_VENDOR_XMC /\ Vendor(id) \in ActiveVendors

\* the target bit of the handler that serves this ID was set when the call began
TargetSetAtEntry ==
  IF S6Family \/ EonMatch THEN HasBit(entry.sr1, BIT6) ELSE HasBit(entry.sr2, BIT1)

IsSr2Write(i) == IsWrite(i) /\ hw.log[i].reg = 1
IsSr3Write(i) == IsWrite(i) /\ hw.log[i].reg = 2
IsSr3Read(i)  == hw.log[i].op = "RDSR" /\ hw.log[i].reg = 2
Is16Write(i)  == IsWrite(i) /\ hw.log[i].reg = 0 /\ hw.log[i].bits = 16
IsS6Write(i)  ==
  IsWrite(i) /\ hw.log[i].reg = 0 /\ hw.log[i].bits = 8 /\ HasBit(hw.log[i].val, BIT6)

---------------------------------------------------------------------------
(* C5, as stated: for every ID that has a handler, when the handler's      *)
(* target bit is already set the dispatch returns success and issues no    *)
(* status-register write at all, SR3 included.                             *)
C5_NoWriteWhenBitSet ==
  (Dispatched /\ ~Unmatched /\ TargetSetAtEntry) => (success /\ NoWrite)

(* C5: for every ID that has a handler, when the handler's target bit is   *)
(* already set the dispatch returns success and writes neither SR1 nor     *)
(* SR2; GigaDevice, 0xD8, PMC, Macronix, EON 0x301C and the default path   *)
(* issue no write at all, and XMC issues exactly the volatile write-back   *)
(* of the SR3 value it read, when that read succeeded.                     *)
C5_NoQEWriteWhenBitSet ==
  (Dispatched /\ ~Unmatched /\ TargetSetAtEntry) =>
    /\ success
    /\ \A i \in LogIdx : IsWrite(i) =>
         /\ IsXMC /\ cfg.sr3ReadOk
         /\ IsSr3Write(i) /\ hw.log[i].val = entry.sr3 /\ hw.log[i].nv = volatile_bit
    /\ (IsXMC /\ cfg.sr3ReadOk) => Cardinality({i \in LogIdx : IsWrite(i)}) = 1
    /\ hw.sr1 = entry.sr1 /\ hw.sr2 = entry.sr2

C5_Witness ==
  /\ Returned /\ retval /\ TargetSetAtEntry
  /\ IsXMC /\ \E i \in LogIdx : IsSr3Write(i)

---------------------------------------------------------------------------
(* C6: on the default path the 8-bit SR2 write is issued only after a      *)
(* 16-bit SR1 write whose read-back showed S9 still clear, and no other    *)
(* write is issued; on a part that rejects every 16-bit write (the latch   *)
(* may stay set) and carries out 8-bit SR2 writes, the dispatch ends with  *)
(* SR2 bit 1 set and success.                                              *)
C6_DefaultFallbackOrder ==
  DefaultPath =>
    /\ \A i \in LogIdx : IsWrite(i) => (Is16Write(i) \/ IsSr2Write(i))
    /\ \A i \in LogIdx : IsSr2Write(i) =>
         \E j \in 1..(i - 2) :
           /\ Is16Write(j)
           /\ hw.log[j + 1].op = "RDSR" /\ hw.log[j + 1].reg = 1
           /\ ~HasBit(hw.log[j + 1].val, BIT1)
    /\ (Dispatched /\ ~cfg.accept16 /\ cfg.accept8sr2) =>
         (success /\ HasBit(hw.sr2, BIT1))
    /\ (Returned /\ ~quad /\ ~cfg.accept16 /\ cfg.accept8sr2) =>
         (retval /\ HasBit(hw.sr2, BIT1))

C6_Witness ==
  /\ DefaultPath /\ Returned /\ retval
  /\ ~cfg.accept16 /\ cfg.accept8sr2 /\ cfg.welSticks
  /\ ~HasBit(entry.sr2, BIT1) /\ HasBit(hw.sr2, BIT1)
  /\ \E j \in LogIdx : \E i \in LogIdx : j < i /\ Is16Write(j) /\ IsSr2Write(i)

---------------------------------------------------------------------------
(* What the caller of reclaim_GPIO_9_10 can see of a finished run *)
CallerVisible == <<retval, hw.pin9, hw.pin10>>
FailureResult == <<FALSE, "SPECIAL", "SPECIAL">>

\* no strategy matched: vendor byte EON, device/MFG not 0x301C
UnsupportedRun  == Returned /\ ~quad /\ Unmatched
\* a write was issued and the read-back did not confirm the bit
VerifyFailedRun == Returned /\ Dispatched /\ ~success /\ ~NoWrite

(* C7, as stated: the result the caller sees tells a run whose write       *)
(* failed verification from a run with an unmatched EON ID: the second     *)
(* yields the failure result, the first yields something else.             *)
C7_OutcomesDistinct ==
  /\ UnsupportedRun => CallerVisible = FailureResult
  /\ VerifyFailedRun => CallerVisible # FailureResult

(* C7: a run with an unmatched EON ID and a run whose write failed         *)
(* verification give the caller the same result: false, with GPIO9 and     *)
(* GPIO10 left in their flash function.                                    *)
C7_FailuresIndistinct ==
  (UnsupportedRun \/ VerifyFailedRun) => CallerVisible = FailureResult

C7_Witness ==
  VerifyFailedRun /\ ~Unmatched /\ CallerVisible = FailureResult

---------------------------------------------------------------------------
(* C8, as stated: every write that sets S6 in SR1 (PMC, Macronix, EON) is  *)
(* a non-volatile write.                                                   *)
C8_S6AlwaysNonVolatile ==
  \A i \in LogIdx : IsS6Write(i) => hw.log[i].nv = non_volatile_bit

(* C8: a write that sets S6 in SR1 is issued only for PMC, Macronix and    *)
(* EON 0x301C; it is non-volatile for PMC and Macronix and volatile for    *)
(* EON.                                                                    *)
C8_S6Persistence ==
  \A i \in LogIdx : IsS6Write(i) =>
    /\ S6Family \/ EonMatch
    /\ S6Family => hw.log[i].nv = non_volatile_bit
    /\ EonMatch => hw.log[i].nv = volatile_bit

C8_Witness ==
  /\ Returned /\ retval /\ S6Family /\ ~HasBit(entry.sr1, BIT6)
  /\ \E i \in LogIdx : IsS6Write(i) /\ hw.log[i].nv = non_volatile_bit

---------------------------------------------------------------------------
(* C9: with vendor byte EON the S6 strategy runs only when the low 16 bits *)
(* of the ID are 0x301C; for every other EON ID the dispatch returns       *)
(* failure having issued no bus operation at all, so neither the S6        *)
(* strategy nor the default S9 strategy ran.                               *)
C9_EonOnly301C ==
  /\ (Vendor(id) = SPI_FLASH_VENDOR_EON /\ ~NoWrite) => EonMatch
  /\ (Unmatched /\ Dispatched) =>
       /\ ~success
       /\ NoWrite
       /\ \A i \in LogIdx : IsCall(i) => (i < Len(hw.log) /\ IsRet(i + 1))
       /\ hw.sr1 = entry.sr1 /\ hw.sr2 = entry.sr2 /\ hw.sr3 = entry.sr3
  /\ (Unmatched /\ Returned) => ~retval

C9_Witness ==
  /\ Unmatched /\ Returned /\ Dispatched /\ ~retval
  /\ ~HasBit(entry.sr1, BIT6) /\ ~HasBit(entry.sr2, BIT1)
  /\ cfg.accept16 /\ cfg.accept8sr1 /\ cfg.accept8sr2

---------------------------------------------------------------------------
\* XMC: SR3 read first, SR2 write after it, SR3 written back last
XmcOrder ==
  /\ \A w \in LogIdx : IsSr2Write(w) => \E r \in 1..(w - 1) : IsSr3Read(r)
  /\ \A x \in LogIdx : IsSr3Write(x) =>
       /\ \E r \in 1..(x - 1) : IsSr3Read(r)
       /\ \A w \in LogIdx : IsSr2Write(w) => w < x
       /\ hw.log[x].val = entry.sr3
  /\ (Dispatched /\ cfg.sr3ReadOk) => \E x \in LogIdx : IsSr3Write(x)
  /\ ~cfg.sr3ReadOk => \A x \in LogIdx : ~IsSr3Write(x)

---------------------------------------------------------------------------
\* operations issued between the dispatch's call and its return
InDispatch(i) ==
  /\ \E c \in 1..(i - 1) : IsCall(c)
  /\ \A r \in 1..i : ~IsRet(r)

\* every strategy of the engine opens with a write-disable
StrategyStarts == {i \in LogIdx : IsWrDis(i) /\ InDispatch(i)}
WriteSet       == {i \in LogIdx : IsWrite(i)}
CallSet        == {i \in LogIdx : IsCall(i)}

(* C11: for GigaDevice and vendor 0xD8 the dispatch makes exactly one      *)
(* strategy attempt, the 8-bit write of SR2 that sets S9: it issues no     *)
(* 16-bit SR1 write and no second attempt, also when the attempt fails     *)
(* verification.                                                           *)
C11_SingleSr2Attempt ==
  Vendor(id) \in {SPI_FLASH_VENDOR_GIGADEVICE, SPI_FLASH_VENDOR_MYSTERY_D8} =>
    /\ Cardinality(WriteSet) <= 1
    /\ \A i \in WriteSet :
         /\ IsSr2Write(i) /\ hw.log[i].bits = 8
         /\ hw.log[i].val = BitOr(entry.sr2, BIT1)
    /\ Dispatched => Cardinality(StrategyStarts) = 1

C11_Witness ==
  /\ Vendor(id) = SPI_FLASH_VENDOR_MYSTERY_D8
  /\ Returned /\ ~retval /\ ~cfg.accept8sr2 /\ cfg.accept16
  /\ Cardinality(WriteSet) = 1

---------------------------------------------------------------------------
(* Observations on a run of a diagnostic procedure *)

Gpio9Run     == call.proc = "testOutputGPIO9"
Gpio10Run    == call.proc = "testOutputGPIO10"
PinShortRun  == call.proc = "test_GPIO_pin_short"
SetSrpRun    == call.proc = "test_set_SRP1_SRP0_clear_QE"
ValidQePos   == call.qe_pos \in {9, 6, 255}

IsRegAccess(i)  == hw.log[i].op \in {"RDSR", "WRSR", "WRDI"}
IsPinOp(i)      == hw.log[i].op \in {"pinMode", "digitalWrite", "digitalRead"}
IsSerial(i)     == hw.log[i].op = "Serial"
IsPinOutput(i, pin)  == IsPinMode(i) /\ hw.log[i].reg = pin /\ hw.log[i].mode = "OUTPUT"
IsPinSpecialFn(i, pin) == IsPinMode(i) /\ hw.log[i].reg = pin /\ hw.log[i].mode = "SPECIAL"
IsLevel(i, pin, lvl) ==
  hw.log[i].op = "digitalWrite" /\ hw.log[i].reg = pin /\ hw.log[i].val = lvl

\* test_set_QE has run to its end and nothing else has touched the registers
AfterSetQE == Gpio9Run /\ pc = "HoldLow"

\* the QE-setting path a call takes, and whether the part carries out its write
SetPathS9_8  == ~call.use_preset /\ call.qe_pos = 9 /\ ~call.use_16_bit_sr1
SetPathS9_16 == ~call.use_preset /\ call.qe_pos = 9 /\ call.use_16_bit_sr1
SetPathS6    == ~call.use_preset /\ call.qe_pos = 6
PathAccepted ==
  \/ SetPathS9_8 /\ cfg.accept8sr2
  \/ SetPathS9_16 /\ cfg.accept16
  \/ SetPathS6 /\ cfg.accept8sr1

---------------------------------------------------------------------------
(* C12: for every QE-setting path (S9 by 8-bit SR2 write, S9 by 16-bit SR1 *)
(* write, S6 by 8-bit SR1 write) and every initial SR1/SR2 on a part that  *)
(* carries out the write, SR1 and SR2 after the operation differ from the  *)
(* values before it in the target bit only.                                *)
C12_OnlyTargetBitChanges ==
  (AfterSetQE /\ PathAccepted) =>
    /\ hw.sr1 = (IF SetPathS6 THEN BitOr(entry.sr1, BIT6) ELSE entry.sr1)
    /\ hw.sr2 = (IF SetPathS6 THEN entry.sr2 ELSE BitOr(entry.sr2, BIT1))
    /\ call.qe = 1

C12_Witness ==
  /\ AfterSetQE /\ SetPathS6 /\ PathAccepted
  /\ entry.sr1 = 0 /\ hw.sr1 = BIT6 /\ hw.sr2 = entry.sr2 /\ entry.sr2 # 0

---------------------------------------------------------------------------
(* C13, as stated: test_set_SRP1_SRP0_clear_QE returns 0 only when the     *)
(* read-back shows SRP0 set and every other SR1 bit (WEL, WIP aside) and   *)
(* every SR2 bit clear; when the read-back shows bit 7 not set it returns  *)
(* all ones; otherwise it returns the mask of the bits stuck on.           *)
C13_ReadBackDecidesResult ==
  (SetSrpRun /\ Returned) =>
    /\ retval = 0 => (hw.sr1 = BIT7 /\ hw.sr2 = 0)
    /\ ~HasBit(hw.sr1, BIT7) => retval = ALL_ONES
    /\ HasBit(hw.sr1, BIT7) => retval = ClearBit(hw.sr1 + 256 * hw.sr2, BIT7)

---------------------------------------------------------------------------
MarkerWriteWithWpLow ==
  \E i, j \in LogIdx :
    /\ i < j
    /\ IsLevel(i, 10, LOW)
    /\ IsWrite(j) /\ hw.log[j].reg = 0 /\ HasBit(hw.log[j].val, BIT2)
    /\ hw.log[j].mode = "performed"

(* C14, as stated: testOutputGPIO10 returns true only if, with GPIO10      *)
(* driven LOW, the part carried out the status-register write that sets    *)
(* the marker bit (SR1 bit 2), for every initial register state and every  *)
(* combination of qe_pos and use_16_bit_sr1.                               *)
C14_TrueOnlyIfMarkerWritten ==
  (Gpio10Run /\ Returned /\ retval = TRUE) => MarkerWriteWithWpLow

---------------------------------------------------------------------------
(* C15, as stated: in testOutputGPIO9 interrupts are suspended for the     *)
(* whole interval in which GPIO9 is an output driven low.                  *)
C15_Gpio9LowOnlySuspended ==
  (Gpio9Run /\ hw.pin9 = "OUTPUT" /\ hw.lvl9 = LOW) => hw.ps = 15

(* C15: testOutputGPIO9 never changes the interrupt level: GPIO9 is made   *)
(* an output and driven low at the interrupt level the procedure was       *)
(* called with (interrupts enabled), and stays so until the procedure puts *)
(* the pin back to SPECIAL or the part stalls.                             *)
C15_Gpio9LowAtCallerLevel ==
  Gpio9Run =>
    /\ hw.ps = 0
    /\ \A i \in LogIdx : hw.log[i].op \notin {"xt_rsil", "xt_wsr_ps"}
    /\ pc \in {"HoldLow", "Crashed"} => (hw.pin9 = "OUTPUT" /\ hw.lvl9 = LOW)

C15_Witness ==
  Gpio9Run /\ pc = "HoldLow" /\ hw.pin9 = "OUTPUT" /\ hw.lvl9 = LOW /\ hw.ps = 0

---------------------------------------------------------------------------
(* C16: in test_GPIO_pin_short every pin-level change and the switch of    *)
(* the pin to OUTPUT happen with interrupts disabled and after the wait    *)
(* for the SPI controller to be idle, the pin is back at SPECIAL before    *)
(* interrupts are enabled again, and no console output is produced inside  *)
(* that critical section.                                                  *)
C16_PinShortCriticalSection ==
  (PinShortRun /\ Returned) =>
    \E r, w, x \in LogIdx :
      /\ hw.log[r].op = "xt_rsil" /\ hw.log[r].val = 15
      /\ hw.log[w].op = "Wait_SPI_Idle"
      /\ hw.log[x].op = "xt_wsr_ps" /\ hw.log[x].val = 0
      /\ r < w /\ w < x
      /\ \A i \in LogIdx :
           /\ IsPinOp(i) => (w < i /\ i < x)
           /\ IsSerial(i) => x < i
           /\ hw.log[i].op \in {"xt_rsil", "Wait_SPI_Idle"} => i \in {r, w}
           /\ hw.log[i].op = "xt_wsr_ps" => i = x
      /\ \E o, s \in LogIdx :
           /\ IsPinOutput(o, call.pin) /\ IsPinSpecialFn(s, call.pin) /\ o < s
           /\ \A i \in LogIdx : hw.log[i].op = "digitalWrite" => i < s
      /\ \E i, j \in LogIdx : IsLevel(i, call.pin, HIGH) /\ IsLevel(j, call.pin, LOW)
      /\ hw.ps = 0
      /\ (IF call.pin = 9 THEN hw.pin9 ELSE hw.pin10) = "SPECIAL"

C16_Witness ==
  /\ PinShortRun /\ Returned /\ call.pin = 9 /\ cfg.short = "ground" /\ retval = FALSE
  /\ \E i \in LogIdx : IsSerial(i) /\ hw.log[i].mode = "has a ground short"

---------------------------------------------------------------------------
(* C17: for qe_pos in {6, 9, 0xFF} testOutputGPIO9 first completes the     *)
(* attempt to set (or read) the candidate QE bit, only then makes GPIO9 an *)
(* output and drives it low, then puts GPIO9 back to SPECIAL, and returns  *)
(* true whatever the QE result; for any other qe_pos it returns false      *)
(* without any register access or pin operation.                           *)
C17_Gpio9Sequence ==
  (Gpio9Run /\ Returned) =>
    IF ValidQePos
    THEN /\ retval = TRUE
         /\ \E o, l, s \in LogIdx :
              /\ IsPinOutput(o, 9) /\ IsLevel(l, 9, LOW) /\ IsPinSpecialFn(s, 9)
              /\ o < l /\ l < s
              /\ \A i \in LogIdx :
                   /\ IsRegAccess(i) => i < o
                   /\ IsPinOp(i) => i \in {o, l, s}
         /\ \E i \in LogIdx : IsWrDis(i)
         /\ hw.pin9 = "SPECIAL"
    ELSE /\ retval = FALSE
         /\ \A i \in LogIdx : ~IsRegAccess(i) /\ ~IsPinOp(i)

C17_Witness ==
  /\ Gpio9Run /\ Returned /\ call.qe_pos = 9 /\ ~call.use_preset
  /\ call.qe = 0 /\ retval = TRUE
  /\ \E i \in LogIdx : IsWrite(i)

---------------------------------------------------------------------------
WrDisSet == {i \in LogIdx : IsWrDis(i)}

(* C18, as stated: the quad-mode precondition is evaluated before latch    *)
(* recovery, so a run with quad mode active issues no write-disable, even  *)
(* with the latch set at entry.                                            *)
C18_NoLatchClearInQuadRun ==
  quad => WrDisSet = {}

(* C18: latch recovery comes before the quad-mode test: a run with quad    *)
(* mode active and the latch set at entry issues exactly one write-disable *)
(* and then fails with no other flash or pin operation; with the latch     *)
(* clear at entry it issues no operation at all.                           *)
C18_LatchRecoveryBeforeModeCheck ==
  (quad /\ pc # "LatchRecovery") =>
    /\ entry.wel => (Len(hw.log) = 1 /\ IsWrDis(1) /\ ~hw.wel)
    /\ ~entry.wel => hw.log = << >>
    /\ Returned => ~retval

C18_Witness ==
  quad /\ Returned /\ entry.wel /\ WrDisSet = {1} /\ ~retval

---------------------------------------------------------------------------
(* C19, as stated: one call of the dispatch executes at most one QE write  *)
(* strategy for every vendor ID (XMC adds only its SR3 backup/restore),    *)
(* and the dispatch is called at most once per reclaim_GPIO_9_10 call.     *)
C19_AtMostOneStrategy ==
  /\ Cardinality(StrategyStarts) <= 1
  /\ \A i \in WriteSet : IsSr3Write(i) => IsXMC
  /\ Cardinality(CallSet) <= 1

(* C19: one call of the dispatch executes at most one QE write strategy    *)
(* for every vendor ID with a case of its own (XMC adds only its SR3       *)
(* backup/restore); on the default path it executes the 16-bit SR1 write   *)
(* and, when that did not verify, the 8-bit SR2 write as a second          *)
(* strategy; the dispatch is called at most once per reclaim_GPIO_9_10     *)
(* call.                                                                   *)
C19_OneStrategyExceptDefault ==
  /\ ~DefaultPath => Cardinality(StrategyStarts) <= 1
  /\ DefaultPath =>
       /\ Cardinality(StrategyStarts) <= 2
       /\ Cardinality(StrategyStarts) = 2 =>
            \E j \in WriteSet : Is16Write(j) /\ \A i \in WriteSet : i >= j
  /\ \A i \in WriteSet : IsSr3Write(i) => IsXMC
  /\ Cardinality(CallSet) <= 1
  /\ (Returned /\ ~quad) => Cardinality(CallSet) = 1

C19_Witness ==
  /\ DefaultPath /\ Returned /\ ~retval
  /\ Cardinality(StrategyStarts) = 2 /\ Cardinality(WriteSet) = 2
  /\ Cardinality(CallSet) = 1

---------------------------------------------------------------------------
\* the 16-bit path of test_set_QE has issued its write
Set16Run ==
  /\ AfterSetQE /\ SetPathS9_16 /\ ~HasBit(entry.sr2, BIT1)

(* C20, as stated: on the 16-bit combined write path that sets S9 the      *)
(* value written carries the SR1 content in its upper byte and the SR2     *)
(* content, with bit 1 set, in its lower byte.                             *)
C20_Sr1UpperSr2Lower ==
  Set16Run =>
    \A i \in WriteSet :
      hw.log[i].val = entry.sr1 * 256 + BitOr(entry.sr2, BIT1)

(* C20: on the 16-bit combined write path that sets S9 the value written   *)
(* carries the SR1 content in its lower byte and the SR2 content, with bit *)
(* 1 set, in its upper byte.                                               *)
C20_Sr1LowerSr2Upper ==
  Set16Run =>
    /\ Cardinality(WriteSet) = 1
    /\ \A i \in WriteSet :
         /\ hw.log[i].reg = 0 /\ hw.log[i].bits = 16
         /\ hw.log[i].val % 256 = entry.sr1
         /\ hw.log[i].val \div 256 = BitOr(entry.sr2, BIT1)

C20_Witness ==
  /\ Set16Run /\ entry.sr1 = BIT6 /\ entry.sr2 = BIT7
  /\ \E i \in WriteSet : hw.log[i].val = BIT6 + 256 * (BIT7 + BIT1)

---------------------------------------------------------------------------
\* the status-register writes of testFlashWrite within testOutputGPIO10:
\* those after the line that announces the marker tests
FlashWriteWrites ==
  {i \in WriteSet :
     \E j \in 1..(i - 1) :
       IsSerial(j) /\ hw.log[j].mode = "Test Write: using Status Register"}

\* the latest earlier read of a register, the latest earlier write
PrevRead(i, reg) ==
  CHOOSE j \in 1..(i - 1) :
    /\ hw.log[j].op = "RDSR" /\ hw.log[j].reg = reg /\ hw.log[j].bits = 8
    /\ \A k \in (j + 1)..(i - 1) : ~(hw.log[k].op = "RDSR" /\ hw.log[k].reg = reg)
PrevWrite(i) ==
  CHOOSE j \in 1..(i - 1) : IsWrite(j) /\ \A k \in (j + 1)..(i - 1) : ~IsWrite(k)

\* bits a marker-test write may carry when qe_pos names a QE bit
MarkerMask ==
  BIT7 + BIT2 + (IF call.qe_pos = 9 THEN BIT1 * 256
                 ELSE IF call.qe_pos = 6 THEN BIT6 ELSE 0)

\* set-writes carry the marker bit, the write after each clears it
MarkerCycles ==
  /\ Cardinality(FlashWriteWrites) = 4
  /\ \A i \in FlashWriteWrites :
       /\ hw.log[i].reg = 0
       /\ hw.log[i].bits = (IF call.use_16_bit_sr1 /\ call.qe_pos # 6 THEN 16 ELSE 8)
       /\ ~HasBit(hw.log[i].val, BIT2) =>
            /\ PrevWrite(i) \in FlashWriteWrites
            /\ hw.log[i].val = ClearBit(hw.log[PrevWrite(i)].val, BIT2)
            /\ HasBit(hw.log[PrevWrite(i)].val, BIT2)
  /\ \E i \in FlashWriteWrites :
       ~HasBit(hw.log[i].val, BIT2) /\ \A k \in FlashWriteWrites : k <= i
  /\ Cardinality({i \in FlashWriteWrites : HasBit(hw.log[i].val, BIT2)}) = 2

---------------------------------------------------------------------------
ClearSrpRun == call.proc = "test_clear_SRP1_SRP0_QE"

(* C22: on every return of test_set_SRP1_SRP0_clear_QE,                    *)
(* test_clear_SRP1_SRP0_QE and testOutputGPIO10 on which GPIO10 was        *)
(* switched to OUTPUT, GPIO10 is back in its SPECIAL function; no call of  *)
(* these procedures ends with GPIO10 still an output.                      *)
C22_Gpio10RestoredAtReturn ==
  ((SetSrpRun \/ ClearSrpRun \/ Gpio10Run) /\ Returned) =>
    /\ hw.pin10 = "SPECIAL"
    /\ \A i \in LogIdx : IsPinOutput(i, 10) =>
         \E j \in LogIdx : i < j /\ IsPinSpecialFn(j, 10)

C22_Witness ==
  /\ Gpio10Run /\ Returned /\ retval = FALSE /\ call.qe_pos = 9
  /\ \E i \in LogIdx : IsPinOutput(i, 10)
  /\ hw.pin10 = "SPECIAL"

---------------------------------------------------------------------------
\* the first status-register write of the procedure, of a set of writes
FirstOf(S) == CHOOSE i \in S : \A k \in S : i <= k

(* C23, as stated: each diagnostic procedure that writes status registers  *)
(* (test_set_SRP1_SRP0_clear_QE, test_clear_SRP1_SRP0_QE, test_set_QE,     *)
(* testFlashWrite) issues a write-disable before its first status-register *)
(* write.                                                                  *)
C23_WriteDisableBeforeFirstWrite ==
  ((SetSrpRun \/ ClearSrpRun \/ Gpio10Run \/ Gpio9Run) /\ pc # "Call") =>
    /\ WriteSet # {} => \E d \in WrDisSet : d < FirstOf(WriteSet)
    /\ FlashWriteWrites # {} =>
         \E d \in WrDisSet, j \in LogIdx :
           /\ IsSerial(j) /\ hw.log[j].mode = "Test Write: using Status Register"
           /\ j < d /\ d < FirstOf(FlashWriteWrites)

---------------------------------------------------------------------------
\* test_set_QE wrote, and the read-back that follows the write shows the
\* QE bit clear
SetQeFailed ==
  /\ ~call.use_preset /\ call.qe_pos \in {6, 9}
  /\ \E i \in WriteSet \ FlashWriteWrites :
       /\ i < Len(hw.log)
       /\ hw.log[i + 1].op = "RDSR" /\ hw.log[i + 1].bits = 8
       /\ ~HasBit(hw.log[i + 1].val, IF call.qe_pos = 9 THEN BIT1 ELSE BIT6)

(* C24, as stated: in testOutputGPIO10 with use_preset false and qe_pos 6  *)
(* or 9, when the attempt to set the QE bit fails (the read-back shows the *)
(* bit still clear), the procedure reports the failure and returns false   *)
(* before running any marker-write test.                                   *)
C24_FailedSetStopsTest ==
  (Gpio10Run /\ Returned /\ SetQeFailed) =>
    /\ retval = FALSE
    /\ FlashWriteWrites = {}
    /\ \E i \in LogIdx :
         IsSerial(i) /\ hw.log[i].mode = "Test Write: set QE bit - failed"

---------------------------------------------------------------------------
(* C25, as stated: with no BUILTIN_SUPPORT_* flag supplied every built-in  *)
(* vendor handler of __spi_flash_vendor_cases (GigaDevice, 0xD8, XMC, S6   *)
(* family, EON) is active, so that an ID with vendor byte 0x20 gets the    *)
(* SR3 backup/restore sequence and not the default 16-bit-then-8-bit path. *)
C25_AllHandlersActiveByDefault ==
  build = NoFlags =>
    /\ ActiveVendors = HandledVendors
    /\ (Vendor(id) = SPI_FLASH_VENDOR_XMC /\ Dispatched) =>
         /\ \E i \in LogIdx : IsSr3Read(i)
         /\ \A i \in LogIdx : ~Is16Write(i)

---------------------------------------------------------------------------
SfdpRevisionRun == call.proc = "get_sfdp_revision"
SfdpBasicRun    == call.proc = "get_sfdp_basic"
IsSfdpRead(i)   == hw.log[i].op = "RDSFDP"
HeaderAccepted  == sfdp.hdrOk /\ sfdp.signature = SFDP_SIGNATURE

(* C26: get_sfdp_revision returns an all-zero SfdpRevInfo whenever the     *)
(* SFDP header read fails or the signature read is not 0x50444653; the     *)
(* parameter fields (parm_major, parm_minor, sz_dw, tbl_ptr) are non-zero  *)
(* only if both the header read and the first parameter-header read        *)
(* succeeded.                                                              *)
C26_ZeroUnlessHeaderValid ==
  (SfdpRevisionRun /\ Returned) =>
    /\ ~HeaderAccepted => retval = ZeroRev
    /\ (retval.parm_major # 0 \/ retval.parm_minor # 0
        \/ retval.sz_dw # 0 \/ retval.tbl_ptr # 0)
         => (HeaderAccepted /\ sfdp.parmOk)
    /\ HeaderAccepted =>
         /\ retval.hdr_major = sfdp.hdr_major /\ retval.hdr_minor = sfdp.hdr_minor
         /\ retval.num_parm_hdrs = sfdp.num_parm_hdrs
         /\ sfdp.parmOk => retval.tbl_ptr = sfdp.tbl_ptr /\ retval.sz_dw = sfdp.sz_dw

C26_Witness ==
  /\ SfdpRevisionRun /\ Returned
  /\ sfdp.hdrOk /\ sfdp.signature = SFDP_SIGNATURE - 1 /\ sfdp.parmOk
  /\ sfdp.tbl_ptr # 0 /\ retval = ZeroRev

---------------------------------------------------------------------------
(* C27: get_sfdp_basic returns a non-null buffer only when rev is          *)
(* non-null, the revision info has a non-zero table pointer, the           *)
(* allocation succeeded and the table read succeeded; on every other path  *)
(* it returns null and no allocated buffer remains (the buffer is freed    *)
(* when the table read fails), and with a null rev no flash access is      *)
(* made.                                                                   *)
C27_BufferOnlyOnSuccess ==
  (SfdpBasicRun /\ Returned) =>
    /\ retval = "dw" <=>
         (~sfdp.revNull /\ sfdp.rev.tbl_ptr # 0 /\ sfdp.mallocOk /\ sfdp.tblOk)
    /\ retval # "dw" => (retval = "nullptr" /\ sfdp.live = 0)
    /\ retval = "dw" => sfdp.live = 1
    /\ (\E i \in LogIdx : hw.log[i].op = "free") <=>
         (~sfdp.revNull /\ sfdp.rev.tbl_ptr # 0 /\ sfdp.mallocOk /\ ~sfdp.tblOk)
    /\ sfdp.revNull => (hw.log = << >> /\ sfdp.rev = StaleRev)

C27_Witness ==
  /\ SfdpBasicRun /\ Returned /\ retval = "nullptr" /\ sfdp.live = 0
  /\ sfdp.mallocOk /\ ~sfdp.tblOk /\ sfdp.rev.tbl_ptr # 0
  /\ \E i \in LogIdx : hw.log[i].op = "free"

=============================================================================
